---- MODULE Spec2Model ----
(***************************************************************************)
(* Telegram CAPTCHA bot: the middleware chain of index.ts (start command,  *)
(* CAPTCHA-answer handler, requireCaptcha gate, allowed-message logger)    *)
(* and the session functions of captcha.ts, over the three store tables    *)
(* of database/schema.ts.                                                  *)
(*                                                                         *)
(* Telegraf handles the updates of one polling batch concurrently, so each *)
(* update is a process whose handler is suspended at every awaited store   *)
(* call.  One step of a handler executes the store call it is waiting for  *)
(* and then runs the synchronous code that follows it, up to the point     *)
(* where the next store call has been issued.  Values that the code        *)
(* computes before issuing a call (new Date(), expiresAt) are kept in the  *)
(* handler's locals.  Awaited transport calls (reply, deleteMessage) touch *)
(* no bot state and are folded into the neighbouring step.                 *)
(***************************************************************************)
EXTENDS Integers, Sequences, FiniteSets, Bags, TLC

(***************************************************************************)
(* Bounds of the model.                                                    *)
(***************************************************************************)
MaxUpdates == 3
MaxInFlight == 2
MaxTicks == 2
MaxRestarts == 1
MaxLength == 3
RandomGrain == 4

TelegramIds == {1, 2}
Delays == {500, 29500, 300000}

(***************************************************************************)
(* Program constants.                                                      *)
(***************************************************************************)
CooldownMs == 30000
SessionTtlMs == 5 * 60 * 1000
MsPerSecond == 1000
DefaultLength == 6
width == 200
height == 80
NoiseLines == 6
NoiseDots == 100
DotSize == 2
JitterSpan == 10

(***************************************************************************)
(* Texts.  A string is a sequence of one-character strings.                *)
(***************************************************************************)
StartText == <<"/", "s", "t", "a", "r", "t">>
ResetUserName == <<"r", "e", "s", "e", "t", "_", "u", "s", "e", "r">>
ResetText(t) == <<"/">> \o ResetUserName \o <<" ", ToString(t)>>
LowerAB == <<"a", "b">>
LowerB2 == <<"b", "2">>

\* captcha texts the generator can return in the model (all over its alphabet)
Answers == {<<"A", "B">>}

\* the <user_id> argument of a /reset_user text
ResetTarget(text) == CHOOSE t \in TelegramIds : text = ResetText(t)

\* the identities ctx.getChatMember reports as creator or administrator
ChatAdmins == {1}

\* texts of inbound text messages
Texts == {StartText, LowerAB, LowerB2, ResetText(1)}

UpperChar(c) ==
  CASE c = "a" -> "A"
    [] c = "b" -> "B"
    [] OTHER -> c

toUpperCase(s) == [i \in 1..Len(s) |-> UpperChar(s[i])]

startsWith(s, c) == Len(s) > 0 /\ s[1] = c

RECURSIVE CommandEnd(_, _)
\* index of the last character of the command word that starts at s[1]
CommandEnd(s, i) ==
  IF i > Len(s) \/ s[i] = " " \/ s[i] = "@" THEN i - 1 ELSE CommandEnd(s, i + 1)

\* bot.command(name): the text opens with the bot command /name
IsCommand(s, name) ==
  /\ startsWith(s, "/")
  /\ SubSeq(s, 2, CommandEnd(s, 2)) = name

StartName == <<"s", "t", "a", "r", "t">>
StatsName == <<"s", "t", "a", "t", "s">>
StatsText == <<"/">> \o StatsName

(***************************************************************************)
(* Timestamp columns: integer(..., { mode: 'timestamp' }) stores whole     *)
(* seconds and reads them back as a Date.                                  *)
(***************************************************************************)
mapToDriverValue(ms) == ms \div MsPerSecond
mapFromDriverValue(sec) == sec * MsPerSecond

(***************************************************************************)
(* State.                                                                  *)
(***************************************************************************)
VARIABLES
  users,           \* users table: telegramId -> row (id is user_<telegramId>)
  captchaSessions, \* captcha_sessions table: session id -> row
  messageLogs,     \* message_logs table: a bag of rows
  activeSessions,  \* the in-memory Map telegram id -> session id
  now,             \* the clock, in milliseconds
  ticks,           \* number of clock advances so far
  delivered,       \* number of updates handed to the chain so far
  h,               \* the updates in flight: a bag of handler records
  gen,             \* a generateRandomText call: its argument, locals and position
  img,             \* a generateCaptchaImage call: its argument, locals and drawing
  restarts         \* number of times the process has been started again

vars == <<users, captchaSessions, messageLogs, activeSessions, now, ticks, delivered, h,
          gen, img, restarts>>

\* a drawing call of the canvas context: its kind and its arguments
\* (lengths in thousandths of a pixel, the angle in thousandths of a radian,
\* cx the exact horizontal centre of a character as a fraction)
NoOp == [kind |-> "", x |-> 0, y |-> 0, x2 |-> 0, y2 |-> 0, cx |-> <<0, 1>>,
         index |-> 0, char |-> "", angle |-> 0, draws |-> <<>>]

\* no generateCaptchaImage call is being followed
ImgIdle == [pc |-> "idle", text |-> <<>>, i |-> 0, fills |-> 0, lines |-> 0,
            dots |-> 0, texts |-> 0, order |-> <<>>, last |-> NoOp]

\* no generateRandomText call is being followed
GenIdle == [pc |-> "idle", arg |-> <<>>, length |-> 0, i |-> 0, result |-> <<>>]

\* `rows` is the number of rows of the users table that carry the telegram_id
NoUserRow == [captchaPassed |-> FALSE, captchaAttempts |-> 0, lastCaptchaAttempt |-> <<>>,
              rows |-> 0]

\* an update, its handler's locals and its handler's observable effects
NewUpdate ==
  [pc |-> "new", kind |-> "message", from |-> 0, hasText |-> FALSE, text |-> <<>>,
   ret |-> "", user |-> NoUserRow, sessionId |-> 0, qnow |-> 0, expiresAt |-> 0,
   createdAt |-> 0, captchaText |-> <<>>,
   date |-> 0, result |-> "", intercepted |-> FALSE, gate |-> "",
   gateUserPassed |-> FALSE, deleteTried |-> FALSE, deleteOk |-> FALSE, replied |-> "", wait |-> 0,
   error |-> FALSE, blocked |-> 0, allowed |-> 0]

Init ==
  /\ users = << >>
  /\ captchaSessions = << >>
  /\ messageLogs = EmptyBag
  /\ activeSessions = << >>
  /\ now = 0
  /\ ticks = 0
  /\ delivered = 0
  /\ h = EmptyBag
  /\ gen = GenIdle
  /\ img = ImgIdle
  /\ restarts = 0

(***************************************************************************)
(* getOrCreateUser                                                         *)
(***************************************************************************)
\* a created row that is already verified
NewUserPassed == [captchaPassed |-> TRUE, captchaAttempts |-> 0, lastCaptchaAttempt |-> <<>>,
                  rows |-> 1]

\* the row getOrCreateUser inserts (column defaults)
NewUser == [captchaPassed |-> FALSE, captchaAttempts |-> 0, lastCaptchaAttempt |-> <<>>,
            rows |-> 1]

\* a users table without the UNIQUE constraint on telegram_id
UniqueViolationNever(table, telegramId) == FALSE

\* users.telegram_id is UNIQUE (and users.id, derived from it, the primary
\* key): an insert for a telegram_id the table already holds is rejected
UniqueViolation(table, telegramId) == telegramId \in DOMAIN table

\* the users table after an insert the constraints let through
InsertUser(table, telegramId, row) ==
  IF telegramId \in DOMAIN table
    THEN [table EXCEPT ![telegramId].rows = @ + 1]
    ELSE table @@ (telegramId :> row)

(***************************************************************************)
(* bot.command('start'): the cooldown check                                *)
(***************************************************************************)
timeSinceLastAttempt(user, t) == t - mapFromDriverValue(user.lastCaptchaAttempt[1])

\* RateLimited with the cooldown bound included
RateLimitedInclusive(user, t) ==
  /\ user.lastCaptchaAttempt # <<>>
  /\ timeSinceLastAttempt(user, t) <= CooldownMs

\* RateLimited with no cooldown at all
RateLimitedNever(user, t) == FALSE

RateLimited(user, t) ==
  /\ user.lastCaptchaAttempt # <<>>
  /\ timeSinceLastAttempt(user, t) < CooldownMs

\* remainingTime rounding down
remainingTimeFloor(user, t) ==
  (CooldownMs - timeSinceLastAttempt(user, t)) \div MsPerSecond

\* Math.ceil((30000 - timeSinceLastAttempt) / 1000)
remainingTime(user, t) ==
  ((CooldownMs - timeSinceLastAttempt(user, t)) + (MsPerSecond - 1)) \div MsPerSecond

\* StartUserUpdate that also writes the column default of captcha_passed
StartUserUpdateResets(row, date) ==
  [row EXCEPT !.lastCaptchaAttempt = <<mapToDriverValue(date)>>,
              !.captchaAttempts = @ + 1,
              !.captchaPassed = FALSE]

\* StartUserUpdate leaving captcha_attempts as it is
StartUserUpdateKeepsCount(row, date) ==
  [row EXCEPT !.lastCaptchaAttempt = <<mapToDriverValue(date)>>]

\* the update that records an issued challenge on the user row
StartUserUpdate(row, date) ==
  [row EXCEPT !.lastCaptchaAttempt = <<mapToDriverValue(date)>>,
              !.captchaAttempts = @ + 1]

(***************************************************************************)
(* createCaptchaSession / verifyCaptcha                                    *)
(***************************************************************************)
\* ExpiresAt adding 5 * 60 as if the clock counted seconds
ExpiresAtInSeconds(t) == t + 5 * 60

\* new Date(Date.now() + 5 * 60 * 1000)
ExpiresAt(t) == t + SessionTtlMs

\* the row createCaptchaSession inserts; created_at is the column default
\* (new Date() when the insert is built), stored like expires_at
NewSession(userId, captchaText, expiresAt, createdAt) ==
  [userId |-> userId, captchaText |-> captchaText,
   expiresAt |-> mapToDriverValue(expiresAt), verified |-> FALSE,
   createdAt |-> mapToDriverValue(createdAt)]

\* crypto.randomBytes(16): an id no row has yet (the smallest, by symmetry)
FreshSessionId == Cardinality(DOMAIN captchaSessions) + 1

\* SessionFilter without its expiresAt condition
SessionFilterNoExpiry(row, qnow) == row.verified = FALSE

\* the WHERE clause of verifyCaptcha's select
SessionFilter(row, qnow) ==
  /\ row.verified = FALSE
  /\ row.expiresAt > mapToDriverValue(qnow)

SelectSession(sessions, sessionId, qnow) ==
  {s \in DOMAIN sessions : s = sessionId /\ SessionFilter(sessions[s], qnow)}

\* verifyCaptcha's comparison, both sides upper-cased
AnswerMatches(captchaText, userInput) ==
  toUpperCase(captchaText) = toUpperCase(userInput)

\* VerifyOutcome comparing the text before looking at verified and expiresAt
VerifyOutcomeTextFirst(sessions, sessionId, userInput, qnow) ==
  IF sessionId \notin DOMAIN sessions THEN "invalid"
  ELSE IF ~AnswerMatches(sessions[sessionId].captchaText, userInput) THEN "incorrect"
  ELSE IF SelectSession(sessions, sessionId, qnow) = {} THEN "invalid"
  ELSE "success"

\* what verifyCaptcha returns once its select has run
VerifyOutcome(sessions, sessionId, userInput, qnow) ==
  IF SelectSession(sessions, sessionId, qnow) = {} THEN "invalid"
  ELSE IF AnswerMatches(sessions[sessionId].captchaText, userInput) THEN "success"
  ELSE "incorrect"

VerifyMessage(outcome) ==
  CASE outcome = "success" -> "CAPTCHA verified successfully"
    [] outcome = "invalid" -> "Invalid or expired CAPTCHA session"
    [] outcome = "incorrect" -> "Incorrect CAPTCHA"

\* MarkVerified writing the negation of the stored flag
MarkVerifiedToggles(sessions, sessionId) ==
  [s \in DOMAIN sessions |->
     IF s = sessionId THEN [sessions[s] EXCEPT !.verified = ~@] ELSE sessions[s]]

\* verifyCaptcha's update: set verified = true where id = sessionId
MarkVerified(sessions, sessionId) ==
  [s \in DOMAIN sessions |->
     IF s = sessionId THEN [sessions[s] EXCEPT !.verified = TRUE] ELSE sessions[s]]

(***************************************************************************)
(* message_logs rows                                                       *)
(***************************************************************************)
\* BlockedLog with the flag of an allowed row
BlockedLogUnflagged(r) == [userId |-> r.from, isDeleted |-> 0]

BlockedLog(r) == [userId |-> r.from, isDeleted |-> 1]
\* AllowedLog with the flag of a blocked row
AllowedLogFlagged(r) == [userId |-> r.from, isDeleted |-> 1]

AllowedLog(r) == [userId |-> r.from, isDeleted |-> 0]

\* db.insert(messageLogs).values(row) by handler r: the table and the handler
\* (which counts the rows it has written, by kind) afterwards
InsertLog(logs, row) == logs (+) SetToBag({row})

Logged(r, row) ==
  [r EXCEPT !.blocked = @ + (IF row.isDeleted = 1 THEN 1 ELSE 0),
            !.allowed = @ + (IF row.isDeleted = 0 THEN 1 ELSE 0)]

(***************************************************************************)
(* The middleware chain, in registration order.                            *)
(***************************************************************************)
\* bot.on('message'): the last handler an update can reach; it never calls
\* next(), so the stats and reset_user commands registered after it are
\* never run for a message, and they do not match a callback query either.
OnMessage(r) ==
  IF r.kind = "message"
    THEN [r EXCEPT !.pc = "gou_select", !.ret = "allowed"]
    ELSE [r EXCEPT !.pc = "end"]

\* a gate that lets every user through
GateBlocksNobody(user) == FALSE

\* requireCaptcha's second test, on the user row it has read
GateBlocks(user) == ~user.captchaPassed

\* SkipsCaptchaCheck without the test on the text
SkipsOnlyCallbacks(r) == r.kind = "callback_query"

\* requireCaptcha's first test: commands and callback queries skip the check
SkipsCaptchaCheck(r) ==
  r.kind = "callback_query" \/ (r.hasText /\ startsWith(r.text, "/"))

\* bot.use(requireCaptcha), up to its first await
requireCaptcha(r) ==
  IF SkipsCaptchaCheck(r)
    THEN OnMessage([r EXCEPT !.gate = "skipped"])
    ELSE [r EXCEPT !.pc = "gou_select", !.ret = "gate"]

\* ActiveAfterVerify dropping the entry whatever the result
ActiveAfterVerifyAlways(active, from, success) ==
  [t \in DOMAIN active \ {from} |-> active[t]]

\* the entry is stored under the session id
ActiveAfterStartSwapped(active, from, sessionId) ==
  [t \in DOMAIN active \cup {sessionId} |-> IF t = sessionId THEN from ELSE active[t]]

\* activeSessions.set(ctx.from.id, sessionId) in bot.command('start')
ActiveAfterStart(active, from, sessionId) ==
  [t \in DOMAIN active \cup {from} |-> IF t = from THEN sessionId ELSE active[t]]

\* activeSessions after verifyCaptcha has returned to the answer handler
ActiveAfterVerify(active, from, success) ==
  IF success THEN [t \in DOMAIN active \ {from} |-> active[t]] ELSE active

\* DeleteOutcome without the try/catch: a failed deleteMessage ends the handler
DeleteOutcomeThrows(r, ok) ==
  IF ok THEN [r EXCEPT !.deleteOk = TRUE]
        ELSE [r EXCEPT !.deleteOk = FALSE, !.error = TRUE, !.pc = "end"]

\* requireCaptcha's try { await ctx.deleteMessage() } catch { log }: the
\* handler goes on whether the call succeeded or not
DeleteOutcome(r, ok) == [r EXCEPT !.deleteOk = ok]

\* TextHandler taking a command for a CAPTCHA answer too
TextHandlerCommandsToo(r) ==
  IF r.from \in DOMAIN activeSessions
    THEN [r EXCEPT !.sessionId = activeSessions[r.from],
                   !.intercepted = TRUE,
                   !.qnow = now,
                   !.pc = "verify_select"]
    ELSE requireCaptcha(r)

\* bot.on(message('text')), up to its first await
TextHandler(r) ==
  IF r.from \in DOMAIN activeSessions
    THEN IF startsWith(r.text, "/")
           THEN requireCaptcha(r)
           ELSE [r EXCEPT !.sessionId = activeSessions[r.from],
                          !.intercepted = TRUE,
                          !.qnow = now,
                          !.pc = "verify_select"]
    ELSE requireCaptcha(r)

\* the chain from its head: bot.command('start') first
Dispatch(r) ==
  IF r.kind = "message" /\ r.hasText /\ IsCommand(r.text, StartName)
    THEN [r EXCEPT !.pc = "gou_select", !.ret = "start"]
  ELSE IF r.kind = "message" /\ r.hasText
    THEN TextHandler(r)
  ELSE requireCaptcha(r)

\* the code that runs when getOrCreateUser returns `user` to its caller
AfterUser(r0, user) ==
  LET r == [r0 EXCEPT !.user = user] IN
  CASE r.ret = "start" ->
         IF user.captchaPassed
           THEN [r EXCEPT !.pc = "end", !.replied = "already"]
         ELSE IF RateLimited(user, now)
           THEN [r EXCEPT !.pc = "end", !.replied = "wait",
                          !.wait = remainingTime(user, now)]
         ELSE [r EXCEPT !.pc = "session_insert", !.expiresAt = ExpiresAt(now),
                          !.createdAt = now]
    [] r.ret = "gate" ->
         LET g == [r EXCEPT !.gate = "checked", !.gateUserPassed = user.captchaPassed] IN
         IF GateBlocks(user)
           THEN [g EXCEPT !.pc = "gate_log", !.deleteTried = TRUE]
           ELSE OnMessage(g)
    [] r.ret = "allowed" -> [r EXCEPT !.pc = "allowed_log"]
    [] r.ret = "answer" -> [r EXCEPT !.pc = "answer_update"]

(***************************************************************************)
(* Actions.                                                                *)
(***************************************************************************)
Handlers == BagToSet(h)

\* handler r moves on to r2
Becomes(r, r2) == h' = (h (-) SetToBag({r})) (+) SetToBag({r2})

\* Telegraf hands an update to the chain
ArriveWithin(limit, kind, from, hasText, text) ==
  /\ BagCardinality(h) < MaxInFlight
  /\ delivered < limit
  /\ delivered' = delivered + 1
  /\ h' = h (+) SetToBag({Dispatch([NewUpdate EXCEPT !.kind = kind, !.from = from,
                                                      !.hasText = hasText,
                                                      !.text = text])})
  /\ UNCHANGED <<users, captchaSessions, messageLogs, activeSessions, now, ticks, gen, img, restarts>>

Arrive(kind, from, hasText, text) == ArriveWithin(MaxUpdates, kind, from, hasText, text)

ArriveText ==
  \E from \in TelegramIds, text \in Texts : Arrive("message", from, TRUE, text)

ArriveOther ==
  \E from \in TelegramIds, kind \in {"message", "callback_query"} :
    Arrive(kind, from, FALSE, <<>>)

\* getOrCreateUser: select by telegramId
GouSelect(r) ==
  /\ r.pc = "gou_select"
  /\ IF r.from \in DOMAIN users
       THEN Becomes(r, AfterUser(r, users[r.from]))
       ELSE Becomes(r, [r EXCEPT !.pc = "gou_insert"])
  /\ UNCHANGED <<users, captchaSessions, messageLogs, activeSessions, now, ticks, delivered, gen, img, restarts>>

\* getOrCreateUser: insert; telegram_id is UNIQUE, so a second insert throws
GouInsert(r) ==
  /\ r.pc = "gou_insert"
  /\ IF UniqueViolation(users, r.from)
       THEN /\ Becomes(r, [r EXCEPT !.pc = "end", !.error = TRUE])
            /\ UNCHANGED users
       ELSE /\ users' = InsertUser(users, r.from, NewUser)
            /\ Becomes(r, [r EXCEPT !.pc = "gou_reselect"])
  /\ UNCHANGED <<captchaSessions, messageLogs, activeSessions, now, ticks, delivered, gen, img, restarts>>

\* getOrCreateUser: select the created row by id
GouReselect(r) ==
  /\ r.pc = "gou_reselect"
  /\ IF r.from \in DOMAIN users
       THEN Becomes(r, AfterUser(r, users[r.from]))
       ELSE Becomes(r, [r EXCEPT !.pc = "end", !.error = TRUE])
  /\ UNCHANGED <<users, captchaSessions, messageLogs, activeSessions, now, ticks, delivered, gen, img, restarts>>

\* createCaptchaSession: insert; then activeSessions.set and the user update is issued
SessionInsert(r) ==
  /\ r.pc = "session_insert"
  /\ \E captchaText \in Answers :
       LET sessionId == FreshSessionId IN
       /\ captchaSessions' = captchaSessions @@
            (sessionId :> NewSession(r.from, captchaText, r.expiresAt, r.createdAt))
       /\ activeSessions' = ActiveAfterStart(activeSessions, r.from, sessionId)
       /\ Becomes(r, [r EXCEPT !.pc = "start_update", !.sessionId = sessionId,
                               !.captchaText = captchaText, !.date = now])
  /\ UNCHANGED <<users, messageLogs, now, ticks, delivered, gen, img, restarts>>

\* bot.command('start'): update of the user row; replyWithPhoto is pending
StartUpdate(r) ==
  /\ r.pc = "start_update"
  /\ users' = [users EXCEPT ![r.from] = StartUserUpdate(@, r.date)]
  /\ Becomes(r, [r EXCEPT !.pc = "end", !.replied = "photo"])
  /\ UNCHANGED <<captchaSessions, messageLogs, activeSessions, now, ticks, delivered, gen, img, restarts>>

\* requireCaptcha: deleteMessage (may fail), insert of the blocked log; reply pending
GateLog(r) ==
  /\ r.pc = "gate_log"
  /\ \E ok \in BOOLEAN :
       LET d == DeleteOutcome(r, ok) IN
       IF d.error
         THEN Becomes(r, d) /\ UNCHANGED messageLogs
         ELSE /\ Becomes(r, [Logged(d, BlockedLog(r)) EXCEPT
                               !.pc = "end", !.replied = "prompt"])
              /\ messageLogs' = InsertLog(messageLogs, BlockedLog(r))
  /\ UNCHANGED <<users, captchaSessions, activeSessions, now, ticks, delivered, gen, img, restarts>>

\* bot.on('message'): insert of the allowed log
AllowedLogInsert(r) ==
  /\ r.pc = "allowed_log"
  /\ messageLogs' = InsertLog(messageLogs, AllowedLog(r))
  /\ Becomes(r, [Logged(r, AllowedLog(r)) EXCEPT !.pc = "end"])
  /\ UNCHANGED <<users, captchaSessions, activeSessions, now, ticks, delivered, gen, img, restarts>>

\* verifyCaptcha: the select and the comparison; on failure the handler's
\* else branch (reply pending)
VerifySelect(r) ==
  /\ r.pc = "verify_select"
  /\ LET outcome == VerifyOutcome(captchaSessions, r.sessionId, r.text, r.qnow) IN
       /\ Becomes(r, IF outcome = "success"
                       THEN [r EXCEPT !.pc = "verify_update"]
                       ELSE [r EXCEPT !.pc = "end", !.result = outcome,
                                      !.replied = VerifyMessage(outcome)])
       /\ activeSessions' = IF outcome = "success" THEN activeSessions
                            ELSE ActiveAfterVerify(activeSessions, r.from, FALSE)
  /\ UNCHANGED <<users, captchaSessions, messageLogs, now, ticks, delivered, gen, img, restarts>>

\* verifyCaptcha: the update; success is returned, the handler drops the
\* activeSessions entry and calls getOrCreateUser
VerifyUpdate(r) ==
  /\ r.pc = "verify_update"
  /\ captchaSessions' = MarkVerified(captchaSessions, r.sessionId)
  /\ activeSessions' = ActiveAfterVerify(activeSessions, r.from, TRUE)
  /\ Becomes(r, [r EXCEPT !.result = "success", !.pc = "gou_select", !.ret = "answer"])
  /\ UNCHANGED <<users, messageLogs, now, ticks, delivered, gen, img, restarts>>

\* CAPTCHA-answer handler: captchaPassed := true; the success reply is pending
AnswerUpdate(r) ==
  /\ r.pc = "answer_update"
  /\ users' = [users EXCEPT ![r.from].captchaPassed = TRUE]
  /\ Becomes(r, [r EXCEPT !.pc = "end", !.replied = VerifyMessage("success")])
  /\ UNCHANGED <<captchaSessions, messageLogs, activeSessions, now, ticks, delivered, gen, img, restarts>>

\* the handler's last transport call returns (or bot.catch has logged its
\* error) and the update is finished
Finish(r) ==
  /\ r.pc = "end"
  /\ h' = h (-) SetToBag({r})
  /\ UNCHANGED <<users, captchaSessions, messageLogs, activeSessions, now, ticks, delivered, gen, img, restarts>>

\* time passes
Tick ==
  /\ ticks < MaxTicks
  /\ \E d \in Delays : now' = now + d
  /\ ticks' = ticks + 1
  /\ UNCHANGED <<users, captchaSessions, messageLogs, activeSessions, delivered, h, gen, img, restarts>>

Next ==
  \/ ArriveText
  \/ ArriveOther
  \/ \E r \in Handlers : GouSelect(r)
  \/ \E r \in Handlers : GouInsert(r)
  \/ \E r \in Handlers : GouReselect(r)
  \/ \E r \in Handlers : SessionInsert(r)
  \/ \E r \in Handlers : StartUpdate(r)
  \/ \E r \in Handlers : GateLog(r)
  \/ \E r \in Handlers : AllowedLogInsert(r)
  \/ \E r \in Handlers : VerifySelect(r)
  \/ \E r \in Handlers : VerifyUpdate(r)
  \/ \E r \in Handlers : AnswerUpdate(r)
  \/ \E r \in Handlers : Finish(r)
  \/ Tick

Spec == Init /\ [][Next]_vars

(***************************************************************************)
(* One subject's conversation, with every handler scheduled fairly.        *)
(***************************************************************************)
Subject == 1

\* one update more than Spec hands over
LiveMaxUpdates == MaxUpdates + 1

\* the subject sends /start or types the two letters of the answer
ArriveFromSubject ==
  \E text \in {StartText, LowerAB} :
    ArriveWithin(LiveMaxUpdates, "message", Subject, TRUE, text)

\* a handler in flight runs to its next await
HandlerStep ==
  \E r \in Handlers :
    \/ GouSelect(r) \/ GouInsert(r) \/ GouReselect(r)
    \/ SessionInsert(r) \/ StartUpdate(r)
    \/ GateLog(r) \/ AllowedLogInsert(r)
    \/ VerifySelect(r) \/ VerifyUpdate(r) \/ AnswerUpdate(r)
    \/ Finish(r)

LiveNext ==
  \/ ArriveFromSubject
  \/ \E r \in Handlers : GouSelect(r)
  \/ \E r \in Handlers : GouInsert(r)
  \/ \E r \in Handlers : GouReselect(r)
  \/ \E r \in Handlers : SessionInsert(r)
  \/ \E r \in Handlers : StartUpdate(r)
  \/ \E r \in Handlers : GateLog(r)
  \/ \E r \in Handlers : AllowedLogInsert(r)
  \/ \E r \in Handlers : VerifySelect(r)
  \/ \E r \in Handlers : VerifyUpdate(r)
  \/ \E r \in Handlers : AnswerUpdate(r)
  \/ \E r \in Handlers : Finish(r)
  \/ Tick

\* the event loop runs every continuation that is ready, and no store or
\* transport call hangs
LiveSpec == Init /\ [][LiveNext]_vars /\ WF_vars(HandlerStep)

(***************************************************************************)
(* The bot over restarts of its process, talking to one identity that is   *)
(* an administrator of the chat.                                           *)
(***************************************************************************)
\* an activeSessions that came back as it was
ActiveAfterRestartKept(active) == active

\* const activeSessions = new Map() runs again when the process starts
ActiveAfterRestart(active) == << >>

\* the process stops (a signal, a crash) and is started again: the handlers
\* in flight are gone, the store is the same file
Restart ==
  /\ restarts < MaxRestarts
  /\ restarts' = restarts + 1
  /\ activeSessions' = ActiveAfterRestart(activeSessions)
  /\ h' = EmptyBag
  /\ UNCHANGED <<users, captchaSessions, messageLogs, now, ticks, delivered, gen, img>>

\* the administrator sends /start, /stats or types the two letters
ArriveFromAdmin ==
  \E from \in ChatAdmins, text \in {StartText, StatsText, LowerAB} :
    Arrive("message", from, TRUE, text)

OpsNext ==
  \/ ArriveFromAdmin
  \/ \E r \in Handlers : GouSelect(r)
  \/ \E r \in Handlers : GouInsert(r)
  \/ \E r \in Handlers : GouReselect(r)
  \/ \E r \in Handlers : SessionInsert(r)
  \/ \E r \in Handlers : StartUpdate(r)
  \/ \E r \in Handlers : GateLog(r)
  \/ \E r \in Handlers : AllowedLogInsert(r)
  \/ \E r \in Handlers : VerifySelect(r)
  \/ \E r \in Handlers : VerifyUpdate(r)
  \/ \E r \in Handlers : AnswerUpdate(r)
  \/ \E r \in Handlers : Finish(r)
  \/ Tick
  \/ Restart

OpsSpec == Init /\ [][OpsNext]_vars

(***************************************************************************)
(* generateRandomText, on its own.                                         *)
(***************************************************************************)
chars ==
  << "A", "B", "C", "D", "E", "F", "G", "H", "J", "K", "L", "M", "N",
     "P", "Q", "R", "S", "T", "U", "V", "W", "X", "Y", "Z",
     "2", "3", "4", "5", "6", "7", "8", "9" >>

\* String.prototype.charAt on a 0-based index: '' outside the string
charAt(s, i) == IF i \in 0..(Len(s) - 1) THEN <<s[i + 1]>> ELSE <<>>

\* Math.floor(Math.random() * chars.length), Math.random() being
\* num / RandomGrain for a num in 0..RandomGrain-1
RandomIndex(num) == (num * Len(chars)) \div RandomGrain

\* LoopContinues running the body once more
LoopContinuesInclusive(i, length) == i <= length

\* the loop test i < length
LoopContinues(i, length) == i < length

\* the calls: without an argument (<<>>) or with a length
Arguments == {<<>>} \cup {<<L>> : L \in 0..MaxLength}

GenInit ==
  /\ users = << >>
  /\ captchaSessions = << >>
  /\ messageLogs = EmptyBag
  /\ activeSessions = << >>
  /\ now = 0
  /\ ticks = 0
  /\ delivered = 0
  /\ h = EmptyBag
  /\ img = ImgIdle
  /\ restarts = 0
  /\ \E arg \in Arguments :
       gen = [pc |-> "loop", arg |-> arg,
              length |-> IF arg = <<>> THEN DefaultLength ELSE arg[1],
              i |-> 0, result |-> <<>>]

\* one turn of the loop: result += chars.charAt(...)
GenAppend ==
  /\ gen.pc = "loop"
  /\ LoopContinues(gen.i, gen.length)
  /\ \E num \in 0..(RandomGrain - 1) :
       gen' = [gen EXCEPT !.result = @ \o charAt(chars, RandomIndex(num)),
                          !.i = @ + 1]
  /\ UNCHANGED <<users, captchaSessions, messageLogs, activeSessions, now, ticks, delivered, h,
                 img, restarts>>

\* the loop is over: return result
GenReturn ==
  /\ gen.pc = "loop"
  /\ ~LoopContinues(gen.i, gen.length)
  /\ gen' = [gen EXCEPT !.pc = "return"]
  /\ UNCHANGED <<users, captchaSessions, messageLogs, activeSessions, now, ticks, delivered, h,
                 img, restarts>>

GenNext ==
  \/ GenAppend
  \/ GenReturn

GenSpec == GenInit /\ [][GenNext]_vars

(***************************************************************************)
(* generateCaptchaImage, on its own.  Math.random() is num / RandomGrain   *)
(* for a num in Draws.                                                     *)
(***************************************************************************)
Draws == 0..(RandomGrain - 1)

\* Math.random() * range
RandomTimes(num, range) == (num * range * 1000) \div RandomGrain

\* (Math.random() - 0.5) * 10
Jitter(num) == ((2 * num - RandomGrain) * JitterSpan * 1000) \div (2 * RandomGrain)

\* (Math.random() - 0.5) * 0.4
Rotation(num) == ((2 * num - RandomGrain) * 4 * 1000) \div (2 * RandomGrain * 10)

\* const charWidth = width / (text.length + 1), as a fraction
charWidth(text) == <<width, Len(text) + 1>>

\* CharX counting the characters from 0
CharXFromZero(text, i) == <<charWidth(text)[1] * i, charWidth(text)[2]>>

\* const x = charWidth * (i + 1)
CharX(text, i) == <<charWidth(text)[1] * (i + 1), charWidth(text)[2]>>

\* the texts drawn: none, a short one and one of the generator's length
ImgTexts == {<<>>, <<"A", "B">>, <<"K", "3", "X", "Q", "9", "P">>}

ImgInit ==
  /\ users = << >>
  /\ captchaSessions = << >>
  /\ messageLogs = EmptyBag
  /\ activeSessions = << >>
  /\ now = 0
  /\ ticks = 0
  /\ delivered = 0
  /\ h = EmptyBag
  /\ gen = GenIdle
  /\ restarts = 0
  /\ \E text \in ImgTexts : img = [ImgIdle EXCEPT !.pc = "background", !.text = text]

\* the call op is made on the context: it is the last one, and its kind is
\* appended to the order of kinds when the kind changes
Drawn(op) ==
  [img EXCEPT !.last = op,
              !.order = IF @ # <<>> /\ @[Len(@)] = op.kind THEN @ ELSE Append(@, op.kind)]

\* ctx.fillRect(0, 0, width, height)
ImgBackground ==
  /\ img.pc = "background"
  /\ img' = [Drawn([NoOp EXCEPT !.kind = "fillRect",
                                !.x2 = width * 1000, !.y2 = height * 1000])
               EXCEPT !.fills = @ + 1, !.pc = "lines", !.i = 0]
  /\ UNCHANGED <<users, captchaSessions, messageLogs, activeSessions, now, ticks, delivered, h,
                 gen, restarts>>

\* the noise lines: moveTo, lineTo, stroke
ImgLine ==
  /\ img.pc = "lines"
  /\ IF img.i < NoiseLines
       THEN \E n1, n2, n3, n4 \in Draws :
              img' = [Drawn([NoOp EXCEPT !.kind = "line",
                                         !.x = RandomTimes(n1, width),
                                         !.y = RandomTimes(n2, height),
                                         !.x2 = RandomTimes(n3, width),
                                         !.y2 = RandomTimes(n4, height),
                                         !.index = img.i,
                                         !.draws = <<n1, n2, n3, n4>>])
                        EXCEPT !.lines = @ + 1, !.i = @ + 1]
       ELSE img' = [img EXCEPT !.pc = "dots", !.i = 0]
  /\ UNCHANGED <<users, captchaSessions, messageLogs, activeSessions, now, ticks, delivered, h,
                 gen, restarts>>

\* the dots: fillRect(random, random, 2, 2)
ImgDot ==
  /\ img.pc = "dots"
  /\ IF img.i < NoiseDots
       THEN \E n1, n2 \in Draws :
              img' = [Drawn([NoOp EXCEPT !.kind = "dot",
                                         !.x = RandomTimes(n1, width),
                                         !.y = RandomTimes(n2, height),
                                         !.x2 = DotSize * 1000,
                                         !.y2 = DotSize * 1000,
                                         !.index = img.i,
                                         !.draws = <<n1, n2>>])
                        EXCEPT !.dots = @ + 1, !.i = @ + 1]
       ELSE img' = [img EXCEPT !.pc = "text", !.i = 0]
  /\ UNCHANGED <<users, captchaSessions, messageLogs, activeSessions, now, ticks, delivered, h,
                 gen, restarts>>

\* the characters: translate(x, y), rotate, fillText; then canvas.toBuffer
ImgChar ==
  /\ img.pc = "text"
  /\ IF img.i < Len(img.text)
       THEN \E jn, rn \in Draws :
              img' = [Drawn([NoOp EXCEPT !.kind = "fillText",
                                         !.cx = CharX(img.text, img.i),
                                         !.y = (height * 1000) \div 2 + Jitter(jn),
                                         !.angle = Rotation(rn),
                                         !.char = img.text[img.i + 1],
                                         !.index = img.i,
                                         !.draws = <<jn, rn>>])
                        EXCEPT !.texts = @ + 1, !.i = @ + 1]
       ELSE img' = [img EXCEPT !.pc = "return"]
  /\ UNCHANGED <<users, captchaSessions, messageLogs, activeSessions, now, ticks, delivered, h,
                 gen, restarts>>

ImgNext ==
  \/ ImgBackground
  \/ ImgLine
  \/ ImgDot
  \/ ImgChar

ImgSpec == ImgInit /\ [][ImgNext]_vars

(***************************************************************************)
(* Properties.                                                             *)
(***************************************************************************)
\* handler r takes a step and becomes r2
Step(r, r2) == r2 # r /\ Becomes(r, r2)

StoredExpiresAt(sessionId) == mapFromDriverValue(captchaSessions[sessionId].expiresAt)

\* the session the handler's verifyCaptcha call names is in the store,
\* unverified, and expires strictly later than the call's `new Date()`
Usable(r) ==
  /\ r.sessionId \in DOMAIN captchaSessions
  /\ captchaSessions[r.sessionId].verified = FALSE
  /\ StoredExpiresAt(r.sessionId) > r.qnow

SameUpperCased(r) ==
  toUpperCase(r.text) = toUpperCase(captchaSessions[r.sessionId].captchaText)

\* C1: verifyCaptcha succeeds if and only if, when its select runs, the store
\* holds the session, unverified and with expiresAt strictly later than now,
\* and the upper-cased input equals the upper-cased answer; in every other
\* case it returns success=false.
C1_VerifyIff ==
  [][\A r \in Handlers : r.pc = "verify_select" =>
       \A r2 \in BagToSet(h') : Step(r, r2) =>
         /\ (r2.pc = "verify_update") <=> (Usable(r) /\ SameUpperCased(r))
         /\ (r2.pc # "verify_update") => (r2.pc = "end" /\ r2.result # "success")]_vars

\* a lower-case input has been accepted against the upper-case answer
C1_Witness ==
  \E r \in Handlers :
    /\ r.result = "success"
    /\ r.text # captchaSessions[r.sessionId].captchaText

\* C2: of two concurrent verifyCaptcha calls with the correct answer on one
\* session exactly one returns success=true: no two calls in flight have both
\* succeeded on the same session.
C2_ExactlyOneSuccess ==
  \A s \in DOMAIN captchaSessions :
    LET won == {r \in Handlers : r.result = "success" /\ r.sessionId = s} IN
    /\ Cardinality(won) <= 1
    /\ \A r \in won : CopiesIn(r, h) <= 1

\* C3: for an Unverified subject, /start is refused and issues no session
\* when less than 30 s have passed since the stored lastCaptchaAttempt that
\* the handler reads, and issues a new challenge when that value is null or
\* at least 30 s old.
C3_Cooldown ==
  [][\A r \in Handlers : \A r2 \in BagToSet(h') : Step(r, r2) =>
       /\ ( /\ r.ret = "start"
            /\ r.pc \in {"gou_select", "gou_reselect"}
            /\ r.from \in DOMAIN users
            /\ ~users[r.from].captchaPassed )
          => IF /\ users[r.from].lastCaptchaAttempt # <<>>
                /\ now - users[r.from].lastCaptchaAttempt[1] * 1000 < 30 * 1000
               THEN /\ r2.pc = "end" /\ r2.replied = "wait"
                    /\ captchaSessions' = captchaSessions
                    /\ activeSessions' = activeSessions
               ELSE r2.pc = "session_insert"
       /\ r.pc = "session_insert"
          => /\ Cardinality(DOMAIN captchaSessions') = Cardinality(DOMAIN captchaSessions) + 1
             /\ r2.sessionId \in DOMAIN captchaSessions' \ DOMAIN captchaSessions
             /\ captchaSessions'[r2.sessionId].userId = r.from
             /\ r.from \in DOMAIN activeSessions'
             /\ activeSessions'[r.from] = r2.sessionId]_vars

\* one /start has been refused inside the cooldown and another, read with a
\* previous attempt on record, is issuing a challenge
C3_Witness ==
  \E r1, r2 \in Handlers :
    /\ r1.pc = "end" /\ r1.replied = "wait"
    /\ r2.pc = "session_insert" /\ r2.user.lastCaptchaAttempt # <<>>

\* C4: once a subject's captchaPassed is true it stays true (the reset_user
\* handler is never run, so nothing at all clears it).
C4_PassedStays ==
  [][\A t \in DOMAIN users : users[t].captchaPassed =>
       (t \in DOMAIN users' /\ users'[t].captchaPassed)]_vars

\* a verified subject has run /start again and is still verified
C4_Witness ==
  \E r \in Handlers :
    /\ r.ret = "start" /\ r.replied = "already"
    /\ users[r.from].captchaPassed

\* C5: when the handling of an admin's /reset_user for a subject completes,
\* the subject's captchaPassed is false, captchaAttempts is 0,
\* lastCaptchaAttempt is null and activeSessions has no entry for the subject.
C5_ResetClears ==
  [][\A r \in Handlers : \A r2 \in BagToSet(h') :
       ( /\ Step(r, r2)
         /\ r2.pc = "end" /\ ~r2.error
         /\ r.hasText /\ IsCommand(r.text, ResetUserName) )
       => LET t == ResetTarget(r.text) IN
          /\ t \notin DOMAIN activeSessions'
          /\ t \in DOMAIN users' =>
               /\ ~users'[t].captchaPassed
               /\ users'[t].captchaAttempts = 0
               /\ users'[t].lastCaptchaAttempt = <<>>]_vars

\* the gate has read the sender's row: r.gateUserPassed is what it saw
GateEvaluated(r) == r.pc = "end" /\ ~r.error /\ r.gate = "checked"

\* C6: a message the gate evaluates for a subject whose captchaPassed is false
\* gets a delete attempt, exactly one blocked log row (isDeleted = 1) and the
\* use-/start reply, and is never passed on to the allowed-message handler.
C6_Blocked ==
  \A r \in Handlers : (GateEvaluated(r) /\ ~r.gateUserPassed) =>
    /\ r.deleteTried
    /\ r.blocked = 1
    /\ r.allowed = 0
    /\ r.ret = "gate"
    /\ r.replied = "prompt"
    /\ CopiesIn([userId |-> r.from, isDeleted |-> 1], messageLogs) >= 1

\* a message has been blocked although its deletion failed
C6_Witness ==
  \E r \in Handlers : GateEvaluated(r) /\ ~r.gateUserPassed /\ ~r.deleteOk

NonCommandMessage(r) ==
  r.kind = "message" /\ ~(r.hasText /\ startsWith(r.text, "/"))

FromUnverified(r) ==
  r.from \in DOMAIN users /\ ~users[r.from].captchaPassed

C8_Allowed ==
  \A r \in Handlers : (GateEvaluated(r) /\ r.gateUserPassed) =>
    /\ ~r.deleteTried
    /\ r.allowed = 1
    /\ r.blocked = 0
    /\ r.ret = "allowed"
    /\ CopiesIn([userId |-> r.from, isDeleted |-> 0], messageLogs) >= 1

\* a verified subject's message has been let through and logged
C8_Witness ==
  \E r \in Handlers : GateEvaluated(r) /\ r.gateUserPassed /\ r.allowed = 1

\* C9: verifyCaptcha answers 'Invalid or expired CAPTCHA session' whenever
\* the session has no row, is verified or has now >= expiresAt, whatever the
\* text, and 'Incorrect CAPTCHA' only for a usable session and a text that
\* does not match.
C9_Reasons ==
  [][\A r \in Handlers : r.pc = "verify_select" =>
       \A r2 \in BagToSet(h') : Step(r, r2) =>
         /\ ~Usable(r) => /\ r2.result = "invalid"
                          /\ r2.replied = "Invalid or expired CAPTCHA session"
         /\ (r2.result = "incorrect") <=> (Usable(r) /\ ~SameUpperCased(r))
         /\ (r2.result = "incorrect") => r2.replied = "Incorrect CAPTCHA"]_vars

\* the correct text, sent again before expiry, has been answered with
\* 'invalid or expired' because the session was already verified
C9_Witness ==
  \E r \in Handlers :
    /\ r.pc = "end" /\ r.result = "invalid"
    /\ r.sessionId \in DOMAIN captchaSessions
    /\ SameUpperCased(r)
    /\ captchaSessions[r.sessionId].verified
    /\ StoredExpiresAt(r.sessionId) > r.qnow

\* the same, for a session that nobody verified: it had expired
C9_WitnessExpired ==
  \E r \in Handlers :
    /\ r.pc = "end" /\ r.result = "invalid"
    /\ r.sessionId \in DOMAIN captchaSessions
    /\ SameUpperCased(r)
    /\ ~captchaSessions[r.sessionId].verified

FailedAnswer(r) == r.pc = "end" /\ r.intercepted /\ r.result \in {"invalid", "incorrect"}

\* C10: a failed verification attempt changes no state (session rows,
\* activeSessions, user rows, message log), and a correct answer looked up
\* after a failed attempt on a still usable session is accepted.
C10_FailureChangesNothing ==
  [][\A r \in Handlers :
       /\ r.pc = "verify_select" =>
            \A r2 \in BagToSet(h') : Step(r, r2) =>
              /\ FailedAnswer(r2) =>
                   UNCHANGED <<users, captchaSessions, activeSessions, messageLogs>>
              /\ ( /\ Usable(r) /\ SameUpperCased(r)
                   /\ \E f \in Handlers : FailedAnswer(f) /\ f.sessionId = r.sessionId )
                 => r2.pc = "verify_update"
       /\ (FailedAnswer(r) /\ h' = h (-) SetToBag({r})) =>
            UNCHANGED <<users, captchaSessions, activeSessions, messageLogs>>]_vars

\* a wrong answer has failed and a correct answer sent later is about to be
\* looked up on the same, still usable session, whose mapping is in place
C10_Witness ==
  \E f, r \in Handlers :
    /\ FailedAnswer(f) /\ f.result = "incorrect"
    /\ r.pc = "verify_select" /\ r.sessionId = f.sessionId /\ r.qnow > f.qnow
    /\ Usable(r) /\ SameUpperCased(r)
    /\ r.from \in DOMAIN activeSessions /\ activeSessions[r.from] = r.sessionId

\* C11: a subject's captchaPassed goes from false (or no row) to true only in
\* the step in which a CAPTCHA-answer handler of that subject, whose
\* verifyCaptcha call has succeeded on a session with userId equal to that
\* subject, writes the user row; no other step sets it.
C11_PassedOnlyAfterSuccess ==
  [][\A t \in DOMAIN users' :
       ( /\ users'[t].captchaPassed
         /\ (t \notin DOMAIN users \/ ~users[t].captchaPassed) )
       => \E r \in Handlers : \E r2 \in BagToSet(h') :
            /\ Step(r, r2)
            /\ r.pc = "answer_update" /\ r.result = "success" /\ r.from = t
            /\ r.sessionId \in DOMAIN captchaSessions
            /\ captchaSessions[r.sessionId].userId = t
            /\ captchaSessions[r.sessionId].verified]_vars

\* a subject has become verified through a success on a session of their own
\* while the other identity has a row and is still unverified
C11_Witness ==
  \E r \in Handlers : \E t \in DOMAIN users :
    /\ r.pc = "end" /\ r.result = "success" /\ ~r.error
    /\ users[r.from].captchaPassed
    /\ captchaSessions[r.sessionId].userId = r.from
    /\ t # r.from /\ ~users[t].captchaPassed

SessionsOf(t) == {s \in DOMAIN captchaSessions : captchaSessions[s].userId = t}

\* the /start handlers of t whose session is inserted and whose update of the
\* user row has not run yet
Issuing(t) == {r \in Handlers : r.pc = "start_update" /\ r.from = t}

\* captchaAttempts counts the sessions of the subject whose /start handler has
\* written the user row
C14_CountIsSessions ==
  /\ \A t \in DOMAIN users :
       users[t].captchaAttempts + Cardinality(Issuing(t)) = Cardinality(SessionsOf(t))
  /\ \A t \in TelegramIds \ DOMAIN users : SessionsOf(t) = {}

\* C14: the user update of a /start that has issued a challenge adds exactly
\* 1 to captchaAttempts and stores the time createCaptchaSession returned as
\* lastCaptchaAttempt; captchaAttempts never decreases, and it equals the
\* number of the subject's sessions once every issuing /start has written.
C14_Count ==
  /\ []C14_CountIsSessions
  /\ [][/\ \A t \in DOMAIN users :
             t \in DOMAIN users' /\ users'[t].captchaAttempts >= users[t].captchaAttempts
        /\ \A r \in Handlers : r.pc = "start_update" =>
             \A r2 \in BagToSet(h') : Step(r, r2) =>
               /\ users'[r.from].captchaAttempts = users[r.from].captchaAttempts + 1
               /\ users'[r.from].lastCaptchaAttempt = <<r.date \div 1000>>
               /\ r.date >= r.createdAt
               /\ mapFromDriverValue(users'[r.from].lastCaptchaAttempt[1]) <= now
               /\ r2.pc = "end" /\ r2.replied = "photo"]_vars

\* a subject has been issued two challenges and both are counted
C14_Witness ==
  \E t \in DOMAIN users :
    /\ users[t].captchaAttempts = 2
    /\ Cardinality(SessionsOf(t)) = 2
    /\ Issuing(t) = {}

\* C16 (see below) is about these updates
Bypasses(r) ==
  \/ r.kind = "callback_query"
  \/ r.kind = "message" /\ r.hasText /\ startsWith(r.text, "/")

\* C16: a message whose text starts with '/' and a callback query never get a
\* delete attempt, a blocked log row or the complete-the-CAPTCHA reply,
\* whatever the sender's captchaPassed: the gate's check is not run for them.
C16_Bypass ==
  \A r \in Handlers : Bypasses(r) =>
    /\ ~r.deleteTried
    /\ r.blocked = 0
    /\ r.replied # "prompt"
    /\ r.gate # "checked"
    /\ r.pc # "gate_log"

\* an unverified subject's callback query and an unverified subject's
\* command other than /start have both been handled
C16_Witness ==
  \E r1, r2 \in Handlers :
    /\ r1.pc = "end" /\ r1.kind = "callback_query" /\ FromUnverified(r1)
    /\ r1.gate = "skipped"
    /\ r2.pc = "end" /\ r2.kind = "message" /\ r2.hasText
    /\ IsCommand(r2.text, ResetUserName) /\ FromUnverified(r2)
    /\ r2.gate = "skipped" /\ ~r2.error

\* C17: when deleteMessage fails for a message the gate blocks, the gate
\* still writes the blocked log row and sends the use-/start reply, does not
\* pass the message on, and the handler does not end in an error.
C17_DeleteFailureSwallowed ==
  \A r \in Handlers : (r.pc = "end" /\ r.deleteTried /\ ~r.deleteOk) =>
    /\ ~r.error
    /\ r.blocked = 1
    /\ r.allowed = 0
    /\ r.ret = "gate"
    /\ r.replied = "prompt"
    /\ CopiesIn([userId |-> r.from, isDeleted |-> 1], messageLogs) >= 1

\* a deletion has failed and one has succeeded, and both messages were
\* logged as blocked
C17_Witness ==
  \E r1, r2 \in Handlers :
    /\ r1.pc = "end" /\ r1.deleteTried /\ ~r1.deleteOk /\ r1.blocked = 1
    /\ r2.pc = "end" /\ r2.deleteTried /\ r2.deleteOk /\ r2.blocked = 1

AdminCommand(r) ==
  r.kind = "message" /\ r.hasText /\ IsCommand(r.text, ResetUserName)

\* C18: the handling of a /reset_user sent by an identity that is neither
\* creator nor administrator ends with the refusal reply as its only effect:
\* no log row written, no user row, session row or activeSessions entry
\* changed by any of its steps.
C18_RefusalOnly ==
  [][\A r \in Handlers : \A r2 \in BagToSet(h') :
       (Step(r, r2) /\ AdminCommand(r) /\ r.from \notin ChatAdmins) =>
         /\ UNCHANGED <<users, captchaSessions, activeSessions, messageLogs>>
         /\ (r2.pc = "end" /\ ~r2.error) => r2.replied = "refused"]_vars

\* C19: a handler in which a store call has failed ends with the generic
\* failure reply to the user whose update it was handling.
C19_FailureReply ==
  \A r \in Handlers : r.error => (r.pc = "end" /\ r.replied = "failure")

\* the subject's text, equal to the answer up to letter case, is waiting for
\* verifyCaptcha's select, sent before the session's expiry and while the
\* session is unverified
CorrectAnswerSent(t) ==
  \E r \in Handlers :
    /\ r.from = t /\ r.pc = "verify_select" /\ r.intercepted
    /\ Usable(r) /\ SameUpperCased(r)
    /\ captchaSessions[r.sessionId].userId = t
    /\ ~users[t].captchaPassed

Verified(t) == t \in DOMAIN users /\ users[t].captchaPassed

\* the first half of C15: a correct answer sent in time leads to the subject
\* being verified
C15_AnswerLeadsToVerified ==
  \A t \in TelegramIds : CorrectAnswerSent(t) ~> Verified(t)

\* the second half of C15: a text that is not a command and arrives from a
\* verified subject goes to the gate (which lets it through to the allowed
\* log), not to verifyCaptcha
C15_LaterMessagesAllowed ==
  [][\A r2 \in BagToSet(h') :
       ( /\ delivered' = delivered + 1
         /\ h' = h (+) SetToBag({r2})
         /\ NonCommandMessage(r2)
         /\ Verified(r2.from) )
       => (~r2.intercepted /\ r2.ret = "gate")]_vars

\* C15: an unverified subject who has run /start and sends the correct answer
\* in any letter case before the session expires eventually becomes verified,
\* and the non-command messages they send once verified are allowed.
C15_VerifiedAndAllowed ==
  /\ C15_AnswerLeadsToVerified
  /\ C15_LaterMessagesAllowed

\* the alphabet of generateRandomText as a set
Alphabet == {chars[k] : k \in 1..Len(chars)}

\* a returned text has the requested length (6 without an argument) and is
\* made of characters of the alphabet
ReturnedTextFits ==
  gen.pc = "return" =>
    /\ gen.arg = <<>> => Len(gen.result) = 6
    /\ gen.arg # <<>> => Len(gen.result) = gen.arg[1]
    /\ \A k \in 1..Len(gen.result) : gen.result[k] \in Alphabet

\* C20 as stated: generateRandomText(L) returns L characters (6 by default)
\* of the alphabet ABCDEFGHJKLMNPQRSTUVWXYZ23456789, which has 33 symbols.
C20_Alphabet33 ==
  /\ ReturnedTextFits
  /\ gen.pc = "return" => (Cardinality(Alphabet) = 33 /\ Len(chars) = 33)

\* C20 as amended: generateRandomText(L) returns L characters (6 by default)
\* of the alphabet ABCDEFGHJKLMNPQRSTUVWXYZ23456789, which has 32 symbols.
C20_Alphabet32 ==
  /\ ReturnedTextFits
  /\ gen.pc = "return" => (Cardinality(Alphabet) = 32 /\ Len(chars) = 32)

\* a call without an argument has returned six characters, a letter and a
\* digit among them
C20_Witness ==
  /\ gen.pc = "return" /\ gen.arg = <<>> /\ Len(gen.result) = 6
  /\ \E j, k \in 1..Len(gen.result) : gen.result[j] = "A" /\ gen.result[k] = "2"

\* a /start handler reads the subject's row in this step
StartReads(r) ==
  /\ r.ret = "start"
  /\ r.pc \in {"gou_select", "gou_reselect"}
  /\ r.from \in DOMAIN users

\* milliseconds from the stored lastCaptchaAttempt to now
Elapsed(t) == now - users[t].lastCaptchaAttempt[1] * 1000

\* C21: a /start refused by the cooldown, e ms after the stored
\* lastCaptchaAttempt with 0 <= e < 30000, reports ceil((30000 - e) / 1000)
\* seconds, a whole number from 1 to 30.
C21_Wait ==
  [][\A r \in Handlers : \A r2 \in BagToSet(h') :
       (Step(r, r2) /\ StartReads(r) /\ r2.replied = "wait") =>
         LET e == Elapsed(r.from) IN
         /\ 0 <= e /\ e < 30000
         /\ r2.wait * 1000 >= 30000 - e
         /\ (r2.wait - 1) * 1000 < 30000 - e
         /\ r2.wait \in 1..30]_vars

\* a refusal 29.5 s after the attempt reports 1 second and a refusal right
\* after it reports 30
C21_Witness ==
  \E r1, r2 \in Handlers :
    /\ r1.replied = "wait" /\ r1.wait = 1
    /\ r2.replied = "wait" /\ r2.wait = 30

\* the new record an arriving update adds to the handlers in flight
Arrives(r2) == delivered' = delivered + 1 /\ h' = h (+) SetToBag({r2})

\* C24: a text that does not start with '/' and comes from an identity with
\* an activeSessions entry goes to verifyCaptcha with the mapped session id
\* and nowhere else: no gate check, no delete attempt, no message_logs row;
\* a text that starts with '/' is not given to verifyCaptcha and goes on to
\* the command handling (/start, or the gate's skip for any other command).
C24_Intercepted ==
  /\ [](\A r \in Handlers : r.intercepted =>
          /\ r.gate = "" /\ ~r.deleteTried /\ r.blocked = 0 /\ r.allowed = 0
          /\ r.ret \in {"", "answer"}
          /\ r.pc \in {"verify_select", "verify_update", "gou_select",
                       "gou_insert", "gou_reselect", "answer_update", "end"})
  /\ [][\A r2 \in BagToSet(h') :
          ( /\ Arrives(r2)
            /\ r2.kind = "message" /\ r2.hasText
            /\ r2.from \in DOMAIN activeSessions )
          => IF startsWith(r2.text, "/")
               THEN /\ ~r2.intercepted /\ r2.pc = "gou_select"
                    /\ \/ r2.ret = "start" /\ IsCommand(r2.text, StartName)
                       \/ r2.ret = "allowed" /\ r2.gate = "skipped"
               ELSE /\ r2.intercepted /\ r2.pc = "verify_select"
                    /\ r2.sessionId = activeSessions[r2.from]]_vars

\* with an activeSessions entry in place, the identity's answer has been
\* handled by verifyCaptcha and a command of theirs has gone to the commands
C24_Witness ==
  \E r1, r2 \in Handlers :
    /\ r1.from = r2.from /\ r1.from \in DOMAIN activeSessions
    /\ r1.intercepted /\ r1.pc = "end" /\ r1.result = "incorrect"
    /\ r1.sessionId = activeSessions[r1.from]
    /\ r2.hasText /\ IsCommand(r2.text, ResetUserName) /\ r2.gate = "skipped"

\* C25: a /start that finds the subject verified, or inside the cooldown,
\* ends there with the matching reply; it inserts no session row and leaves
\* activeSessions and the user rows (captchaAttempts, lastCaptchaAttempt) as
\* they were, and so does the rest of its handling.
C25_NoIssue ==
  [][\A r \in Handlers :
       /\ \A r2 \in BagToSet(h') :
            ( /\ Step(r, r2) /\ StartReads(r)
              /\ \/ users[r.from].captchaPassed
                 \/ /\ users[r.from].lastCaptchaAttempt # <<>>
                    /\ Elapsed(r.from) < 30000 )
            => /\ r2.pc = "end"
               /\ r2.replied = IF users[r.from].captchaPassed THEN "already" ELSE "wait"
               /\ UNCHANGED <<captchaSessions, activeSessions, users>>
       /\ ( /\ r.pc = "end" /\ r.replied \in {"already", "wait"}
            /\ h' = h (-) SetToBag({r}) )
          => UNCHANGED <<captchaSessions, activeSessions, users>>]_vars

\* a /start has been refused inside the cooldown: the subject still has the
\* one session, the one count and the mapping entry of the first /start
C25_Witness ==
  \E r \in Handlers :
    /\ r.pc = "end" /\ r.replied = "wait"
    /\ r.from \in DOMAIN activeSessions
    /\ users[r.from].captchaAttempts = 1
    /\ Cardinality(SessionsOf(r.from)) = 1

\* a verified subject's /start has been answered 'already passed' and the
\* subject's one session is still the only one
C25_WitnessVerified ==
  \E r \in Handlers :
    /\ r.pc = "end" /\ r.replied = "already"
    /\ users[r.from].captchaAttempts = 1
    /\ Cardinality(SessionsOf(r.from)) = 1

\* C29: a subject whose captchaPassed is true has no activeSessions entry.
C29_NoEntryWhenVerified ==
  \A t \in DOMAIN users : users[t].captchaPassed => t \notin DOMAIN activeSessions

\* C30: a message_logs row with isDeleted = 0 is only written for a message
\* whose sender has captchaPassed = true when the row is written.
C30_AllowedOnlyVerified ==
  [][\A r \in Handlers : \A r2 \in BagToSet(h') :
       (Step(r, r2) /\ r2.allowed = r.allowed + 1) => Verified(r.from)]_vars

\* C22: an administrator's /stats is answered with the statistics of the
\* store (total users, verified users, total attempts, blocked messages of
\* the last 24 hours).
C22_StatsReported ==
  \A r \in Handlers :
    ( /\ r.pc = "end" /\ ~r.error
      /\ r.kind = "message" /\ r.hasText /\ IsCommand(r.text, StatsName)
      /\ r.from \in ChatAdmins )
    => r.replied = "stats"

\* a session of t that verifyCaptcha would still accept
Pending(t) ==
  {s \in SessionsOf(t) :
     ~captchaSessions[s].verified /\ StoredExpiresAt(s) > now}

\* C26: a restart empties activeSessions and leaves the store rows as they
\* are; a non-command text from an identity without an entry goes to the
\* gate, not to verifyCaptcha; and an identity gets an entry again only by
\* the session insert of a /start of theirs.
C26_AfterRestart ==
  /\ [][restarts' = restarts + 1 =>
          /\ activeSessions' = << >>
          /\ UNCHANGED <<users, captchaSessions, messageLogs>>]_vars
  /\ [][\A r2 \in BagToSet(h') :
          ( /\ Arrives(r2) /\ NonCommandMessage(r2) /\ r2.hasText
            /\ r2.from \notin DOMAIN activeSessions )
          => (~r2.intercepted /\ r2.ret = "gate" /\ r2.pc = "gou_select")]_vars
  /\ [][\A t \in TelegramIds :
          (t \notin DOMAIN activeSessions /\ t \in DOMAIN activeSessions')
          => \E r \in Handlers : \E r2 \in BagToSet(h') :
               /\ Step(r, r2)
               /\ r.pc = "session_insert" /\ r.ret = "start" /\ r.from = t
               /\ IsCommand(r.text, StartName)]_vars

\* after the restart the subject, whose challenge is still pending, has typed
\* its answer and the gate has blocked the text
C26_Witness ==
  \E r \in Handlers :
    /\ restarts = 1
    /\ r.pc = "end" /\ r.text = LowerAB
    /\ ~r.intercepted /\ r.deleteTried /\ r.replied = "prompt"
    /\ \E s \in Pending(r.from) : AnswerMatches(captchaSessions[s].captchaText, r.text)

\* after the restart the subject has run /start again and has an entry again
C26_WitnessAgain ==
  /\ restarts = 1
  /\ \E r \in Handlers :
       /\ r.pc = "end" /\ r.replied = "photo"
       /\ r.from \in DOMAIN activeSessions
       /\ Cardinality(SessionsOf(r.from)) = 2

\* s is the beginning of t
IsPrefix(s, t) == Len(s) <= Len(t) /\ s = SubSeq(t, 1, Len(s))

\* C27: every character is drawn at the canvas mid-height plus a jitter within
\* -5..+5 pixels and with a rotation within -0.4..+0.4 radians, from two
\* separate draws, and these are the full ranges: the smallest draw gives the
\* lower end of each.
C27_Ranges ==
  img.last.kind = "fillText" =>
    LET jitter == img.last.y - 40 * 1000 IN
    /\ jitter \in -5000..5000
    /\ img.last.angle \in -400..400
    /\ img.last.draws[1] = 0 => jitter = -5000
    /\ img.last.draws[2] = 0 => img.last.angle = -400

\* C28: a call fills the background once, then draws exactly 6 lines with
\* both ends inside the 200x80 canvas, then exactly 100 blocks of 2x2
\* pixels, then the characters of the text, one each, character i (from 0)
\* centred at x = 200 * (i + 1) / (len(text) + 1), in this order.
C28_Drawing ==
  /\ IsPrefix(img.order, <<"fillRect", "line", "dot", "fillText">>)
  /\ img.pc = "return" =>
       /\ img.fills = 1 /\ img.lines = 6 /\ img.dots = 100
       /\ img.texts = Len(img.text)
       /\ Len(img.order) = IF img.text = <<>> THEN 3 ELSE 4
  /\ img.last.kind = "fillRect" =>
       /\ img.last.x = 0 /\ img.last.y = 0
       /\ img.last.x2 = 200 * 1000 /\ img.last.y2 = 80 * 1000
  /\ img.last.kind = "line" =>
       /\ img.last.x \in 0..(200 * 1000) /\ img.last.x2 \in 0..(200 * 1000)
       /\ img.last.y \in 0..(80 * 1000) /\ img.last.y2 \in 0..(80 * 1000)
       /\ img.last.index = img.lines - 1
  /\ img.last.kind = "dot" =>
       /\ img.last.x2 = 2 * 1000 /\ img.last.y2 = 2 * 1000
       /\ img.last.index = img.dots - 1
  /\ img.last.kind = "fillText" =>
       /\ img.last.index = img.texts - 1
       /\ img.last.char = img.text[img.last.index + 1]
       /\ img.last.cx[1] * (Len(img.text) + 1) =
            200 * (img.last.index + 1) * img.last.cx[2]

\* the six characters of a generated text have been drawn after the six
\* lines and the hundred blocks, and the image is returned
C28_Witness ==
  /\ img.pc = "return" /\ Len(img.text) = 6
  /\ img.lines = 6 /\ img.dots = 100 /\ img.texts = 6
  /\ img.last.kind = "fillText" /\ img.last.index = 5
  /\ img.last.cx = <<1200, 7>>

(***************************************************************************)
(* Cooldown between sessions, reset against answers, the activeSessions    *)
(* entries and getOrCreateUser                                             *)
(***************************************************************************)
\* the stored creation times (whole seconds) of two session rows are at
\* least the cooldown apart
SpacedApart(a, b) ==
  LET ca == captchaSessions[a].createdAt
      cb == captchaSessions[b].createdAt IN
  (IF ca >= cb THEN ca - cb ELSE cb - ca) * MsPerSecond >= CooldownMs

\* C31: under every interleaving of /start handlers no two sessions issued
\* to one subject have creation times less than 30 seconds apart (no
\* reset_user ever changes the store, so no reset lies between two sessions).
C31_SessionsSpaced ==
  \A t \in TelegramIds : \A a, b \in SessionsOf(t) : a # b => SpacedApart(a, b)

\* the update of an admin's /reset_user command is finished
ResetFinishes(r) ==
  /\ r.pc = "end" /\ ~r.error
  /\ AdminCommand(r) /\ r.from \in ChatAdmins
  /\ h' = h (-) SetToBag({r})
  /\ delivered' = delivered

\* C32: when the handling of an admin's /reset_user for a subject is
\* finished the subject's captchaPassed is false, whatever answers to
\* sessions issued before it were handled before or meanwhile.
C32_ResetHolds ==
  [][\A r \in Handlers : ResetFinishes(r) =>
       LET t == ResetTarget(r.text) IN
       t \in DOMAIN users' => ~users'[t].captchaPassed]_vars

\* the activeSessions entry of identity t names a session row of t's user
EntryRefersToRow(t) ==
  /\ activeSessions[t] \in DOMAIN captchaSessions
  /\ captchaSessions[activeSessions[t]].userId = t

\* C33: every activeSessions entry names a session row that is in the store
\* and belongs to the user of the entry's identity; and an answer taken for
\* an entry succeeds only on what the store row says: with the row verified
\* or expired it fails although the entry is there, and a success leaves the
\* row verified.
C33_EntriesReferToRows ==
  /\ [](\A t \in DOMAIN activeSessions : EntryRefersToRow(t))
  /\ [](\A r \in Handlers : (r.intercepted /\ r.result = "success") =>
          /\ r.sessionId \in DOMAIN captchaSessions
          /\ captchaSessions[r.sessionId].userId = r.from
          /\ captchaSessions[r.sessionId].verified)
  /\ [][\A r \in Handlers : \A r2 \in BagToSet(h') :
          ( /\ Step(r, r2) /\ r.pc = "verify_select"
            /\ r.from \in DOMAIN activeSessions
            /\ ~Usable(r) )
          => /\ r2.result = "invalid"
             /\ captchaSessions' = captchaSessions /\ users' = users]_vars

\* an answer was refused for its expired row while the entry that named the
\* row is still in activeSessions
C33_Witness ==
  \E r \in Handlers :
    /\ r.intercepted /\ r.pc = "end" /\ r.result = "invalid"
    /\ r.from \in DOMAIN activeSessions
    /\ activeSessions[r.from] = r.sessionId
    /\ EntryRefersToRow(r.from)
    /\ ~captchaSessions[r.sessionId].verified

\* handler r is inside getOrCreateUser
InGetOrCreateUser(r) == r.pc \in {"gou_select", "gou_insert", "gou_reselect"}

\* C34: a step of getOrCreateUser changes no row the users table holds; the
\* only row it adds is the caller's, with captchaPassed = false,
\* captchaAttempts = 0 and lastCaptchaAttempt = null; and the table never
\* holds more than one row for a telegram_id.
C34_GetOrCreateUser ==
  /\ [](\A t \in DOMAIN users : users[t].rows = 1)
  /\ [][\A r \in Handlers : \A r2 \in BagToSet(h') :
          (Step(r, r2) /\ InGetOrCreateUser(r)) =>
            /\ \A t \in DOMAIN users : t \in DOMAIN users' /\ users'[t] = users[t]
            /\ \A t \in DOMAIN users' \ DOMAIN users :
                 /\ t = r.from /\ r.pc = "gou_insert"
                 /\ ~users'[t].captchaPassed
                 /\ users'[t].captchaAttempts = 0
                 /\ users'[t].lastCaptchaAttempt = <<>>]_vars

\* two updates of one new identity were handled concurrently: one insert
\* went through, the other one was rejected, and the table holds one row
C34_Witness ==
  \E r1, r2 \in Handlers :
    /\ r1.from = r2.from /\ r1.from \in DOMAIN users
    /\ r1.pc = "end" /\ r1.error
    /\ r2.pc \notin {"new", "gou_select", "gou_insert"} /\ ~r2.error
    /\ users[r1.from].rows = 1

====
